---- MODULE Spec2Model ----
(***************************************************************************)
(* The telemetry control loop of src/main.cpp: the uWS hub's onMessage      *)
(* handler (marker check, payload extraction, frame transform, curve fit,  *)
(* optimizer call, actuation mapping, predicted-path extraction, latency   *)
(* delay, send) run by the single-threaded event loop h.run().             *)
(*                                                                         *)
(* Numbers.  The code computes on doubles; the model computes on integers. *)
(* Angles are counted in units of pi/180 radian (so pi == 180), headings   *)
(* are multiples of a quarter turn (cos and sin are then exact), waypoints *)
(* are small integers lying on polynomials with coefficients in            *)
(* CoeffRange (the least-squares fit is then exact), and the optimizer's   *)
(* steering outputs are multiples of deg2rad(25) (the division of line 87  *)
(* is then exact).                                                         *)
(***************************************************************************)
EXTENDS Integers, Sequences, FiniteSets, TLC

VARIABLES
    pending,        \* per connection: frames received by the hub, not yet handed to onMessage
    pc,             \* position of the onMessage handler
    ws,             \* onMessage parameter: the connection of the frame being handled
    sdata,          \* line 35: the frame being handled
    next_x_vals,    \* lines 56-61, 93: transformed waypoints (x)
    next_y_vals,    \* lines 56-61, 94: transformed waypoints (y)
    solveArgs,      \* line 78: the (state, coeffs) handed to mpc.Solve
    vars,           \* line 78: the optimizer's result
    msgJson,        \* lines 84-109: the steer payload under construction
    i,              \* line 99: the loop variable
    mpc_x_vals,     \* line 91
    mpc_y_vals,     \* line 92
    sent,           \* messages passed to ws.send by the current (or last) handler
    running,        \* handler invocations entered and not returned
    inFlight,       \* mpc.Solve invocations entered and not returned
    solveCalls,     \* mpc.Solve invocations made by the current (or last) handler
    delays,         \* sleep_for calls completed by the current (or last) handler
    oob             \* the current (or last) handler read vars[k] with k >= vars.size()

vars_all == <<pending, pc, ws, sdata, next_x_vals, next_y_vals, solveArgs, vars,
              msgJson, i, mpc_x_vals, mpc_y_vals, sent, running, inFlight,
              solveCalls, delays, oob>>

----------------------------------------------------------------------------
(* Bounds of the model *)

MaxQueue == 2        \* frames a connection may have waiting
MaxResultLen == 4    \* longest optimizer result
MaxPush == 3         \* pairs mpc_x_vals / mpc_y_vals can hold before allocation fails

Conns == {"c1", "c2"}

----------------------------------------------------------------------------
(* Numeric helpers *)

pi == 180
deg2rad(x) == (x * pi) \div 180
rad2deg(x) == (x * 180) \div pi

Cos(a) == CASE a % 360 = 0 -> 1 [] a % 360 = 90 -> 0 [] a % 360 = 180 -> -1 [] a % 360 = 270 -> 0
Sin(a) == CASE a % 360 = 0 -> 0 [] a % 360 = 90 -> 1 [] a % 360 = 180 -> 0 [] a % 360 = 270 -> -1

\* atan on the slopes the fit can produce
Atan(c) == CASE c = 0 -> 0 [] c = 1 -> 45 [] c = -1 -> -45

RECURSIVE Pow(_, _)
Pow(x, n) == IF n = 0 THEN 1 ELSE x * Pow(x, n - 1)

RECURSIVE SumTo(_, _)
SumTo(f, n) == IF n = 0 THEN 0 ELSE f[n] + SumTo(f, n - 1)

\* helpers.h polyeval: sum of coeffs[k] * x^k, lowest order first
polyeval(coeffs, x) ==
    SumTo([k \in 1..Len(coeffs) |-> coeffs[k] * Pow(x, k - 1)], Len(coeffs))

CoeffRange == -1..1

SSE(c, xvals, yvals) ==
    SumTo([k \in 1..Len(xvals) |->
              (yvals[k] - polyeval(c, xvals[k])) * (yvals[k] - polyeval(c, xvals[k]))],
          Len(xvals))

\* helpers.h polyfit: least-squares fit of the given order; fails for fewer
\* than order + 1 points and for a degenerate point set
polyfit(xvals, yvals, order) ==
    IF Len(xvals) < order + 1 \/ Cardinality({xvals[k] : k \in 1..Len(xvals)}) < order + 1
    THEN [ok |-> FALSE, coeffs |-> <<>>]
    ELSE LET Cands == [1..(order + 1) -> CoeffRange]
             Exact == {c \in Cands : SSE(c, xvals, yvals) = 0}
         IN  [ok |-> TRUE,
              coeffs |-> IF Exact # {}
                         THEN CHOOSE c \in Exact : TRUE
                         ELSE CHOOSE c \in Cands :
                                  \A d \in Cands : SSE(c, xvals, yvals) <= SSE(d, xvals, yvals)]

----------------------------------------------------------------------------
(* Inbound frames *)

NoData == [kind |-> "none", ptsx |-> <<>>, ptsy |-> <<>>, x |-> 0, y |-> 0, psi |-> 0, speed |-> 0]
NullData == [NoData EXCEPT !.kind = "null"]
OtherEvent == [NoData EXCEPT !.kind = "other"]

Telemetry ==
    { [kind |-> "telemetry", ptsx |-> px, ptsy |-> py, x |-> x, y |-> 0, psi |-> psi, speed |-> 1] :
        px \in {<<1, 2, 3, 4>>}, py \in {<<1, 2, 3, 4>>, <<0, 0, 0, 0>>},
        x \in {0, 1}, psi \in {0, 90} }
    \cup
    { [kind |-> "telemetry", ptsx |-> <<1, 2, 3>>, ptsy |-> <<1, 2, 3>>, x |-> 0, y |-> 0, psi |-> 0, speed |-> 1],
      [kind |-> "telemetry", ptsx |-> <<2, 2, 2, 2>>, ptsy |-> <<1, 2, 3, 4>>, x |-> 0, y |-> 0, psi |-> 0, speed |-> 1],
      [kind |-> "telemetry", ptsx |-> <<>>, ptsy |-> <<>>, x |-> 0, y |-> 0, psi |-> 0, speed |-> 1] }

\* A frame: its first characters (at most 2) and what follows them.
Frames ==
    { [head |-> <<"4", "2">>, body |-> b] : b \in {NoData, NullData, OtherEvent} \cup Telemetry }
    \cup
    { [head |-> h, body |-> NoData] : h \in {<<>>, <<"4">>} }
    \cup
    { [head |-> <<"4", "3">>, body |-> b] : b \in {NullData, OtherEvent} \cup
         { t \in Telemetry : t.ptsx = <<1, 2, 3, 4>> /\ t.ptsy = <<1, 2, 3, 4>> /\ t.x = 0 /\ t.psi = 0 } }

\* std::string::size of the frame: the text after the head is not empty
\* unless the body is absent
BodySize(b) == IF b.kind = "none" THEN 0 ELSE 4
Size(f) == Len(f.head) + BodySize(f.body)

----------------------------------------------------------------------------
(* The optimizer (MPC.h, an external collaborator) *)

SteerVals == {0 - 2 * deg2rad(25), deg2rad(25)}
ThrottleVals == {1}
TrajVal(k) == 10 * k

\* What mpc.Solve may return: index 0 steering, index 1 throttle, then the
\* predicted trajectory; a failing optimizer returns it short or with an odd tail.
SolverResults ==
    {<<>>} \cup
    UNION { { [k \in 1..n |-> IF k = 1 THEN s ELSE IF k = 2 THEN t ELSE TrajVal(k - 1)] :
                s \in SteerVals, t \in ThrottleVals } : n \in 1..MaxResultLen }

\* SolverResult postcondition: length >= 2 and an even number of trailing entries
WellFormed(r) == Len(r) >= 2 /\ (Len(r) - 2) % 2 = 0

\* What a read of v[k] (0-based, as in the code) yields: the element, or, past
\* the end, whatever the memory holds
GarbageVals == {0 - 3 * deg2rad(25), 3 * deg2rad(25)}
Read(v, k) == IF k < Len(v) THEN {v[k + 1]} ELSE GarbageVals

----------------------------------------------------------------------------
(* The handler *)

NullJson == [steering_angle |-> 0, throttle |-> 0, mpc_x |-> <<>>, mpc_y |-> <<>>,
             next_x |-> <<>>, next_y |-> <<>>]
NoArgs == [state |-> <<>>, coeffs |-> <<>>]
NoFrame == [head |-> <<>>, body |-> NoData]

Init ==
    /\ pending = [c \in Conns |-> 0]
    /\ pc = "idle"
    /\ ws = "c1"
    /\ sdata = NoFrame
    /\ next_x_vals = <<>>
    /\ next_y_vals = <<>>
    /\ solveArgs = NoArgs
    /\ vars = <<>>
    /\ msgJson = NullJson
    /\ i = 0
    /\ mpc_x_vals = <<>>
    /\ mpc_y_vals = <<>>
    /\ sent = <<>>
    /\ running = 0
    /\ inFlight = 0
    /\ solveCalls = 0
    /\ delays = 0
    /\ oob = FALSE

\* A client sends a frame: the hub holds it until onMessage is called for it.
Receive(c) ==
    /\ pc # "terminated"
    /\ pending[c] < MaxQueue
    /\ pending' = [pending EXCEPT ![c] = @ + 1]
    /\ UNCHANGED <<pc, ws, sdata, next_x_vals, next_y_vals, solveArgs, vars, msgJson, i,
                   mpc_x_vals, mpc_y_vals, sent, running, inFlight, solveCalls, delays, oob>>

\* as if the latency delay gave the thread back to the hub
HubIdleDuringDelay == pc \in {"idle", "sleeping"}

\* h.run(): one thread runs the handlers, one call at a time
HubIdle == pc = "idle"

\* as if only the first character of the marker were compared
IsEventFirstCharOnly(data) ==
    /\ Size(data) > 2
    /\ Len(data.head) >= 1
    /\ data.head[1] = "4"

\* line 37
IsEvent(data) ==
    /\ Size(data) > 2
    /\ Len(data.head) >= 2
    /\ data.head[1] = "4"
    /\ data.head[2] = "2"

\* helpers.h hasData: the payload after the marker, or nothing
hasData(data) == IF data.body.kind \in {"telemetry", "other"} THEN data.body ELSE NoData

\* lines 56-61
TransformX(j1) ==
    [k \in 1..Len(j1.ptsx) |->
        (j1.ptsx[k] - j1.x) * Cos(0 - j1.psi) - (j1.ptsy[k] - j1.y) * Sin(0 - j1.psi)]
TransformY(j1) ==
    [k \in 1..Len(j1.ptsx) |->
        (j1.ptsx[k] - j1.x) * Sin(0 - j1.psi) + (j1.ptsy[k] - j1.y) * Cos(0 - j1.psi)]

\* as if a quadratic were fitted
FitOrderQuadratic == 3 - 1

\* line 67: the order of the fit
FitOrder == 3

\* lines 56-67 on each telemetry payload of the model (the fit depends on the
\* payload alone, so it is tabulated)
Fit == [t \in Telemetry |-> polyfit(TransformX(t), TransformY(t), FitOrder)]

\* lines 72-77
State(v, coeffs) == <<0, 0, 0, v, polyeval(coeffs, 0), 0 - Atan(coeffs[2])>>

ManualMsg == [event |-> "manual", payload |-> <<>>]
SteerMsg(j) == [event |-> "steer", payload |-> j]

\* as if the fallback branch sent nothing
NoDataRepliesNone(c) == <<>>

\* lines 126-130
NoDataReplies(c) == <<[to |-> c, msg |-> ManualMsg]>>

\* lines 30-78: onMessage from its entry to the call of mpc.Solve
OnMessage(c, data) ==
    /\ HubIdle
    /\ pending[c] > 0
    /\ pending' = [pending EXCEPT ![c] = @ - 1]
    /\ ws' = c
    /\ sdata' = data
    /\ vars' = <<>>
    /\ msgJson' = NullJson
    /\ i' = 0
    /\ mpc_x_vals' = <<>>
    /\ mpc_y_vals' = <<>>
    /\ delays' = 0
    /\ oob' = FALSE
    /\ IF ~IsEvent(data)
       THEN /\ pc' = "idle"
            /\ sent' = <<>>
            /\ UNCHANGED <<running, inFlight>>
            /\ solveCalls' = 0
            /\ solveArgs' = NoArgs
            /\ next_x_vals' = <<>>
            /\ next_y_vals' = <<>>
       ELSE LET s == hasData(data) IN
            IF s = NoData
            THEN /\ pc' = "idle"
                 /\ sent' = NoDataReplies(c)
                 /\ UNCHANGED <<running, inFlight>>
                 /\ solveCalls' = 0
                 /\ solveArgs' = NoArgs
                 /\ next_x_vals' = <<>>
                 /\ next_y_vals' = <<>>
            ELSE IF s.kind # "telemetry"
            THEN /\ pc' = "idle"
                 /\ sent' = <<>>
                 /\ UNCHANGED <<running, inFlight>>
                 /\ solveCalls' = 0
                 /\ solveArgs' = NoArgs
                 /\ next_x_vals' = <<>>
                 /\ next_y_vals' = <<>>
            ELSE LET ptsx == TransformX(s)
                     ptsy == TransformY(s)
                     fit == Fit[s]
                 IN  /\ sent' = <<>>
                     /\ next_x_vals' = ptsx
                     /\ next_y_vals' = ptsy
                     /\ running' = running + 1
                     /\ IF ~fit.ok
                        THEN \* the fit's error leaves the handler: nothing catches it
                             /\ pc' = "terminated"
                             /\ solveCalls' = 0
                             /\ solveArgs' = NoArgs
                             /\ UNCHANGED inFlight
                        ELSE /\ pc' = "solving"
                             /\ solveCalls' = 1
                             /\ inFlight' = inFlight + 1
                             /\ solveArgs' = [state |-> State(s.speed, fit.coeffs),
                                              coeffs |-> fit.coeffs]

\* lines 78-94: mpc.Solve returns; steering and throttle are read from the result
SolveReturn(r) ==
    /\ pc = "solving"
    /\ vars' = r
    /\ inFlight' = inFlight - 1
    /\ oob' = (Len(r) < 2)
    /\ \/ \E a \in Read(r, 0), b \in Read(r, 1) :
            /\ msgJson' = [NullJson EXCEPT !.steering_angle = (0 - a) \div deg2rad(25),
                                           !.throttle = b]
            /\ pc' = "extract"
            /\ i' = 2
       \/ /\ Len(r) < 2           \* the read past the end faults
          /\ pc' = "terminated"
          /\ UNCHANGED <<msgJson, i>>
    /\ UNCHANGED <<pending, ws, sdata, next_x_vals, next_y_vals, solveArgs, mpc_x_vals,
                   mpc_y_vals, sent, running, solveCalls, delays>>

\* line 99: the loop's third expression, i + 2, is computed and dropped
LoopAdvance(k) == k

\* lines 99-102: one pass of the loop body
LoopBody ==
    /\ pc = "extract"
    /\ i < Len(vars)
    /\ IF Len(mpc_x_vals) >= MaxPush
       THEN \* push_back cannot allocate: std::bad_alloc leaves the handler
            /\ pc' = "terminated"
            /\ UNCHANGED <<mpc_x_vals, mpc_y_vals, i, oob>>
       ELSE /\ oob' = (oob \/ i + 1 >= Len(vars))
            /\ \/ \E a \in Read(vars, i), b \in Read(vars, i + 1) :
                    /\ mpc_x_vals' = Append(mpc_x_vals, a)
                    /\ mpc_y_vals' = Append(mpc_y_vals, b)
                    /\ i' = LoopAdvance(i)
                    /\ pc' = "extract"
               \/ /\ i + 1 >= Len(vars)     \* the read past the end faults
                  /\ pc' = "terminated"
                  /\ UNCHANGED <<mpc_x_vals, mpc_y_vals, i>>
    /\ UNCHANGED <<pending, ws, sdata, next_x_vals, next_y_vals, solveArgs, vars, msgJson,
                   sent, running, inFlight, solveCalls, delays>>

\* as if the message were sent without the delay
AfterAssembleNoDelay == "sending"

\* line 123 follows the assembly of the message
AfterAssemble == "sleeping"

\* lines 99, 105-113: the loop ends and the message is assembled
LoopExit ==
    /\ pc = "extract"
    /\ ~(i < Len(vars))
    /\ msgJson' = [msgJson EXCEPT !.mpc_x = mpc_x_vals, !.mpc_y = mpc_y_vals,
                                  !.next_x = next_x_vals, !.next_y = next_y_vals]
    /\ pc' = AfterAssemble
    /\ UNCHANGED <<pending, ws, sdata, next_x_vals, next_y_vals, solveArgs, vars, i,
                   mpc_x_vals, mpc_y_vals, sent, running, inFlight, solveCalls, delays, oob>>

\* line 123: the 100 ms sleep elapses
Sleep ==
    /\ pc = "sleeping"
    /\ delays' = delays + 1
    /\ pc' = "sending"
    /\ UNCHANGED <<pending, ws, sdata, next_x_vals, next_y_vals, solveArgs, vars, msgJson, i,
                   mpc_x_vals, mpc_y_vals, sent, running, inFlight, solveCalls, oob>>

\* lines 124-132: the steer message is sent and the handler returns
Send ==
    /\ pc = "sending"
    /\ sent' = Append(sent, [to |-> ws, msg |-> SteerMsg(msgJson)])
    /\ pc' = "idle"
    /\ running' = running - 1
    /\ UNCHANGED <<pending, ws, sdata, next_x_vals, next_y_vals, solveArgs, vars, msgJson, i,
                   mpc_x_vals, mpc_y_vals, inFlight, solveCalls, delays, oob>>

HandlerStep ==
    \/ \E c \in Conns, data \in Frames : OnMessage(c, data)
    \/ \E r \in SolverResults : SolveReturn(r)
    \/ LoopBody
    \/ LoopExit
    \/ Sleep
    \/ Send

Next ==
    \/ \E c \in Conns : Receive(c)
    \/ \E c \in Conns, data \in Frames : OnMessage(c, data)
    \/ \E r \in SolverResults : SolveReturn(r)
    \/ LoopBody
    \/ LoopExit
    \/ Sleep
    \/ Send

Spec == Init /\ [][Next]_vars_all

\* The thread that runs a handler keeps running it.
FairSpec == Spec /\ WF_vars_all(HandlerStep)

----------------------------------------------------------------------------
(* Properties *)

SteerCount == Cardinality({k \in 1..Len(sent) : sent[k].msg.event = "steer"})
ManualCount == Cardinality({k \in 1..Len(sent) : sent[k].msg.event = "manual"})

\* the frame begins with the 2-character marker "42"
HasMarker(f) == Len(f.head) >= 2 /\ f.head[1] = "4" /\ f.head[2] = "2"

\* the pairs of a result, read from index 2 to the end
ExpectedX(r) == [k \in 1..((Len(r) - 2) \div 2) |-> r[2 * k + 1]]
ExpectedY(r) == [k \in 1..((Len(r) - 2) \div 2) |-> r[2 * k + 2]]
IsPrefix(s, t) == Len(s) <= Len(t) /\ \A k \in 1..Len(s) : s[k] = t[k]

Clamp(x) == IF x < -1 THEN -1 ELSE IF x > 1 THEN 1 ELSE x

\* the waypoints of a telemetry payload cannot carry a degree-3 fit
Unfit(b) ==
    \/ Len(b.ptsx) < 4
    \/ Cardinality({TransformX(b)[k] : k \in 1..Len(b.ptsx)}) < 4

\* C1: once the optimizer has returned a well-formed result for a telemetry
\* event, the handler eventually returns having sent exactly one steer message.
C1_HandledToCompletion ==
    (pc = "extract" /\ WellFormed(vars)) ~> (pc = "idle" /\ SteerCount = 1 /\ Len(sent) = 1)

\* C2 as stated: every handled frame that carries the marker and no usable
\* payload, the marker alone included, got exactly one manual message with an
\* empty payload, no steer message and no optimizer call.
C2_ManualForEveryMarkedFrame ==
    (pc = "idle" /\ HasMarker(sdata) /\ hasData(sdata) = NoData)
        => /\ Len(sent) = 1
           /\ ManualCount = 1
           /\ sent[1].msg.payload = <<>>
           /\ sent[1].to = ws
           /\ SteerCount = 0
           /\ solveCalls = 0

\* C2 amended: a handled frame longer than the marker that carries the marker
\* and no usable payload got exactly one manual message with an empty payload,
\* no steer message and no optimizer call; the marker alone got no message.
C2_ManualFallback ==
    /\ (pc = "idle" /\ HasMarker(sdata) /\ Size(sdata) > 2 /\ hasData(sdata) = NoData)
          => /\ Len(sent) = 1
             /\ ManualCount = 1
             /\ sent[1].msg.payload = <<>>
             /\ sent[1].to = ws
             /\ SteerCount = 0
             /\ solveCalls = 0
    /\ (pc = "idle" /\ HasMarker(sdata) /\ Size(sdata) <= 2)
          => (sent = <<>> /\ solveCalls = 0)

C2_Witness ==
    /\ pc = "idle"
    /\ sdata = [head |-> <<"4", "2">>, body |-> NullData]
    /\ ManualCount = 1
    /\ ws = "c2"

\* C3: for a well-formed result the extracted predicted path is, at every
\* point of the extraction, the pairs of the result read once each, in order,
\* from index 2; and the path of the assembled message is all of them.
C3_TrajectoryPairing ==
    (pc \in {"extract", "sleeping", "sending"} /\ WellFormed(vars))
        => /\ IsPrefix(mpc_x_vals, ExpectedX(vars))
           /\ IsPrefix(mpc_y_vals, ExpectedY(vars))
           /\ pc \in {"sleeping", "sending"}
                 => (msgJson.mpc_x = ExpectedX(vars) /\ msgJson.mpc_y = ExpectedY(vars))

\* C4 (for the events whose fit succeeded and whose handler read no entry
\* past the end of the optimizer's result): no event leaves the process unable
\* to handle the events that wait.
C4_ErrorsContained ==
    ~(pc = "terminated" /\ solveCalls > 0 /\ ~oob /\ \E c \in Conns : pending[c] > 0)

\* C5: the steering_angle of every steer message sent for a result that has
\* its first two entries lies in [-1, 1] and is -result[0] / deg2rad(25)
\* clamped to that range, and its throttle is result[1].
C5_SteeringBounded ==
    \A k \in 1..Len(sent) :
        (sent[k].msg.event = "steer" /\ Len(vars) >= 2)
            => /\ sent[k].msg.payload.steering_angle \in -1..1
               /\ sent[k].msg.payload.steering_angle = Clamp((0 - vars[1]) \div deg2rad(25))
               /\ sent[k].msg.payload.throttle = vars[2]

\* C6: the handler never reads an entry the result does not have, and sends
\* no steer message for a result without its first two entries.
C6_MalformedResultContained ==
    /\ ~oob
    /\ SteerCount > 0 => Len(vars) >= 2

C8_OneHandlerAtATime ==
    /\ [](running <= 1 /\ inFlight <= 1)
    /\ [][(\E c \in Conns : pending'[c] < pending[c])
             => (pc = "idle" /\ running = 0 /\ inFlight = 0)]_vars_all

C8_Witness ==
    /\ pc = "solving"
    /\ inFlight = 1
    /\ running = 1
    /\ pending["c1"] > 0
    /\ pending["c2"] > 0

\* C9: a steer message is sent only after the Solve of its event has returned
\* and after exactly one latency delay has elapsed; a manual message is sent
\* with no delay.
C9_DelayBeforeSteer ==
    /\ delays <= 1
    /\ delays = 1 => (solveCalls = 1 /\ inFlight = 0 /\ pc \in {"sending", "idle"})
    /\ pc = "sending" => (delays = 1 /\ SteerCount = 0)
    /\ SteerCount <= 1
    /\ SteerCount = 1 => (delays = 1 /\ solveCalls = 1 /\ inFlight = 0 /\ pc = "idle")
    /\ ManualCount > 0 => delays = 0

C9_Witness ==
    /\ pc = "idle"
    /\ SteerCount = 1
    /\ delays = 1

\* C10: a frame without the marker gets no message and no optimizer call; the
\* optimizer is called and a steer message sent only for a marked telemetry
\* frame; a marked frame naming another event gets no message and no call.
C10_OnlyMarkedTelemetry ==
    /\ ~HasMarker(sdata) => (sent = <<>> /\ solveCalls = 0 /\ pc = "idle")
    /\ (solveCalls > 0 \/ SteerCount > 0 \/ pc # "idle")
          => (HasMarker(sdata) /\ sdata.body.kind = "telemetry")
    /\ (HasMarker(sdata) /\ sdata.body.kind = "other") => (sent = <<>> /\ solveCalls = 0)

C10_Witness ==
    /\ pc = "idle"
    /\ sdata.head = <<"4", "3">>
    /\ sdata.body.kind = "telemetry"
    /\ ws = "c2"
    /\ sent = <<>>

====
